---- MODULE Spec2Model ----
(***************************************************************************)
(* A model of the hoteval Python SDK: the process-wide client slot, the    *)
(* current-agent slot, the Agent facade, and the run / step lifecycle      *)
(* operations with the messages they post to the backend.                  *)
(*                                                                         *)
(* Python values are modelled as follows.  An optional string is a string, *)
(* with None the distinguished string below; an optional object is a       *)
(* sequence of length at most one; an optional time is an integer with     *)
(* NoTime for None; a raised exception is a record [cls, msg], and a       *)
(* normal return is the record OK.                                         *)
(***************************************************************************)
EXTENDS Integers, Sequences, FiniteSets, TLC

(***************************************************************************)
(* Bounds of the model.                                                    *)
(***************************************************************************)
MaxIds == 2
MaxPosts == 3
MaxClock == 1
MaxAgents == 2
MaxScopes == 1

\* The start_run calls the registry specification makes to observe the slot.
MaxConfigRuns == 1

\* The lifecycle calls the unconfigured specification makes.
MaxCalls == 3

\* The steps of a Run, and the events of a Step, the serialization
\* specification builds.
MaxSteps == 2
MaxEvents == 2

\* The log_step calls the step specification makes.
MaxLogs == 2

\* The call sites that may be inside a call at once.
MaxSites == 2

(***************************************************************************)
(* Python's None, truthiness and `a or b`.                                 *)
(***************************************************************************)
None == "<None>"

NoTime == -1

Truthy(s) == s # None /\ s # ""

Or(a, b) == IF Truthy(a) THEN a ELSE b

OK == [cls |-> "OK", msg |-> ""]

ValueError(m) == [cls |-> "ValueError", msg |-> m]

RuntimeError(m) == [cls |-> "RuntimeError", msg |-> m]

RequestException == [cls |-> "RequestException", msg |-> "send failed"]

BodyError == [cls |-> "BodyError", msg |-> "raised by the with-body"]

(***************************************************************************)
(* The spec's names for the exception classes the code raises.             *)
(***************************************************************************)
ConfigurationError == "ValueError"

NotConfiguredError == "RuntimeError"

TransportError == "RequestException"

(***************************************************************************)
(* os.getenv(key, default): the default is used only when the variable is  *)
(* unset; a variable set to the empty string is returned as is.            *)
(***************************************************************************)
getenv(env, key, default) == IF env[key] = None THEN default ELSE env[key]

(***************************************************************************)
(* Inputs.  The lifecycle specification Spec runs the module-level         *)
(* functions, and the facade specification SpecAgent the Agent class, over *)
(* one process environment and one configuration; the registry             *)
(* specification SpecConfig runs configure, set_agent and start_run over   *)
(* more of them.                                                           *)
(***************************************************************************)
NoEnviron ==
    [HOTEVAL_API_KEY |-> None, HOTEVAL_BASE_URL |-> None,
     ENVIRONMENT |-> None, DATA_LOCATION |-> None]

Environs ==
    { NoEnviron,
      [HOTEVAL_API_KEY |-> "envkey", HOTEVAL_BASE_URL |-> "http://env",
       ENVIRONMENT |-> "", DATA_LOCATION |-> "US"],
      [HOTEVAL_API_KEY |-> "", HOTEVAL_BASE_URL |-> None,
       ENVIRONMENT |-> "staging", DATA_LOCATION |-> ""] }

DefaultTimeout == 30

NoKeyInput ==
    [api_key |-> None, base_url |-> None, timeout |-> DefaultTimeout,
     environment |-> None, data_location |-> None]

KeyInput ==
    [api_key |-> "k", base_url |-> "http://x/", timeout |-> DefaultTimeout,
     environment |-> None, data_location |-> None]

ConfigureInputs == { NoKeyInput, KeyInput }

MoreConfigureInputs ==
    ConfigureInputs \cup
    { [api_key |-> "", base_url |-> "http://x", timeout |-> DefaultTimeout,
       environment |-> "prod", data_location |-> None],
      [api_key |-> "k2", base_url |-> None, timeout |-> 5,
       environment |-> "prod", data_location |-> "EU2"] }

AgentA ==
    [name |-> "bot", version |-> "1.0.0", environment |-> None,
     data_location |-> None, description |-> None, agent_type |-> "sdk_configured"]

AgentB ==
    [name |-> "b2", version |-> "2.0", environment |-> "live",
     data_location |-> "US", description |-> "d", agent_type |-> "custom"]

AgentInputs == { AgentA, AgentB }

MoreAgentInputs ==
    AgentInputs \cup
    { [AgentB EXCEPT !.name = ""],
      [AgentA EXCEPT !.version = ""],
      [AgentB EXCEPT !.version = None],
      [AgentA EXCEPT !.name = "", !.version = None],
      [AgentB EXCEPT !.environment = "", !.description = None],
      [AgentA EXCEPT !.data_location = "", !.agent_type = "custom"] }

RunInputs == { [name |-> "r1", meta |-> "u=1"] }

EventInputs ==
    { <<>>,
      <<[type |-> "prompt", content |-> "hi"],
        [type |-> "output", content |-> "yo", metadata |-> "role"]>> }

StepInputs == { [name |-> "s1", attrs |-> None, events |-> ev] : ev \in EventInputs }

\* A step whose second event dict has no "type" key.
BadStepInput ==
    [name |-> "s1", attrs |-> None,
     events |-> <<[type |-> "prompt", content |-> "hi"], [content |-> "yo"]>>]

MoreStepInputs == StepInputs \cup { BadStepInput }

(***************************************************************************)
(* The state.                                                              *)
(*   environ  os.environ, fixed for the life of the process                *)
(*   client   the module global _client: <<>> or <<client record>>         *)
(*   agents   the Agent instances the application holds                    *)
(*   runs     the Run objects the application holds, by id                 *)
(*   posts    every session.post call made so far, in order                *)
(*   clock    the last value datetime.now() returned                       *)
(*   nextId   the number of uuid4() values drawn so far                    *)
(*   scopes   the `with agent.run(...)` blocks now open, innermost last    *)
(*   inflight the calls now between two of their statements, by call site: *)
(*            what each has in its local variables and where it resumes    *)
(* and, kept for stating properties only,                                  *)
(*   lastSet   the agent identity the latest successful set_agent on the   *)
(*             live client declared: <<>> or <<its six fields>>            *)
(*   setCalled whether set_agent ran since the latest successful configure *)
(*   calls     the start_run / log_step / end_run calls made, in order     *)
(*   ret       the latest call: its arguments and what its caller got      *)
(***************************************************************************)
VARIABLES environ, client, agents, runs, posts, clock, nextId, scopes,
          lastSet, setCalled, calls, ret, inflight

vars == <<environ, client, agents, runs, posts, clock, nextId, scopes,
          lastSet, setCalled, calls, ret, inflight>>

(***************************************************************************)
(* datetime.now(): the n reads one call makes.  The program reads the      *)
(* clock separately each time.  ClockReadings gives every outcome of n     *)
(* successive reads of a clock that never goes back; ClockReads gives the  *)
(* one in which all n reads fall in the same instant t, for the            *)
(* specifications that let time pass between calls only.                   *)
(***************************************************************************)
ClockReads(t, n) == [i \in 1..n |-> t]

RECURSIVE ClockReadings(_, _)
ClockReadings(from, n) ==
    IF n = 0 THEN { <<>> }
    ELSE UNION { { <<t>> \o q : q \in ClockReadings(t, n - 1) } : t \in from..MaxClock }

(***************************************************************************)
(* datetime.isoformat(), and the `x.isoformat() if x else None` idiom.     *)
(***************************************************************************)
isoformat(t) == IF t = NoTime THEN <<>> ELSE <<"iso8601", t>>

AgentConfig_to_dict(cfg) ==
    [name |-> cfg.name, environment |-> cfg.environment,
     data_location |-> cfg.data_location, version |-> cfg.version,
     description |-> cfg.description, agent_type |-> cfg.agent_type]

Event_to_dict(e) ==
    [type |-> e.type, content |-> e.content,
     timestamp |-> isoformat(e.timestamp), metadata |-> e.metadata]

\* A Step.to_dict that lists the events last first.
Step_to_dict_lastFirst(s) ==
    [id |-> s.id, name |-> s.name, attrs |-> s.attrs,
     events |-> [i \in 1..Len(s.events) |->
                    Event_to_dict(s.events[Len(s.events) + 1 - i])],
     start_time |-> isoformat(s.start_time), end_time |-> isoformat(s.end_time)]

Step_to_dict(s) ==
    [id |-> s.id, name |-> s.name, attrs |-> s.attrs,
     events |-> [i \in 1..Len(s.events) |-> Event_to_dict(s.events[i])],
     start_time |-> isoformat(s.start_time), end_time |-> isoformat(s.end_time)]

Run_to_dict(r) ==
    [id |-> r.id, name |-> r.name, meta |-> r.meta,
     steps |-> [i \in 1..Len(r.steps) |-> Step_to_dict(r.steps[i])],
     start_time |-> isoformat(r.start_time), end_time |-> isoformat(r.end_time)]

(***************************************************************************)
(* A constructor that does not check the credentials.                      *)
(***************************************************************************)
HotEvalClient_init_noKeyCheck(a, env) ==
    LET api_key == Or(a.api_key, getenv(env, "HOTEVAL_API_KEY", None))
    IN  [err |-> OK,
         client |->
           << [api_key |-> api_key,
               base_url |-> Or(a.base_url,
                               getenv(env, "HOTEVAL_BASE_URL", "https://api.hoteval.com")),
               timeout |-> a.timeout,
               default_environment |->
                   Or(a.environment, getenv(env, "ENVIRONMENT", "dev")),
               default_data_location |->
                   Or(a.data_location, getenv(env, "DATA_LOCATION", "EU")),
               current_agent_config |-> <<>>,
               authorization |-> <<"Bearer", api_key>>] >>]

(***************************************************************************)
(* HotEvalClient.__init__: the credentials come from the argument or the   *)
(* environment; the other settings from the argument, the environment or   *)
(* the built-in default; the current-agent slot starts empty.              *)
(***************************************************************************)
HotEvalClient_init(a, env) ==
    LET api_key == Or(a.api_key, getenv(env, "HOTEVAL_API_KEY", None))
    IN  IF ~Truthy(api_key)
        THEN [err |-> ValueError("API key required"), client |-> <<>>]
        ELSE [err |-> OK,
              client |->
                << [api_key |-> api_key,
                    base_url |-> Or(a.base_url,
                                    getenv(env, "HOTEVAL_BASE_URL", "https://api.hoteval.com")),
                    timeout |-> a.timeout,
                    default_environment |->
                        Or(a.environment, getenv(env, "ENVIRONMENT", "dev")),
                    default_data_location |->
                        Or(a.data_location, getenv(env, "DATA_LOCATION", "EU")),
                    current_agent_config |-> <<>>,
                    authorization |-> <<"Bearer", api_key>>] >>]

(***************************************************************************)
(* Two faulty set_agent methods: one keeps an agent that is already set,   *)
(* the other does not check the version.                                   *)
(***************************************************************************)
AgentConfigOf(c, a) ==
    [name |-> a.name, version |-> a.version,
     environment |-> Or(a.environment, c.default_environment),
     data_location |-> Or(a.data_location, c.default_data_location),
     description |-> a.description, agent_type |-> a.agent_type]

Client_set_agent_keepFirst(c, a) ==
    IF ~Truthy(a.name) \/ ~Truthy(a.version)
    THEN [err |-> ValueError("Agent name and version are required"), client |-> c]
    ELSE [err |-> OK,
          client |-> IF c.current_agent_config # <<>> THEN c
                     ELSE [c EXCEPT !.current_agent_config = <<AgentConfigOf(c, a)>>]]

Client_set_agent_noVersionCheck(c, a) ==
    IF ~Truthy(a.name)
    THEN [err |-> ValueError("Agent name is required"), client |-> c]
    ELSE [err |-> OK,
          client |-> [c EXCEPT !.current_agent_config = <<AgentConfigOf(c, a)>>]]

\* A set_agent that installs whatever environment and data_location resolve to.
Client_set_agent_noResolvedCheck(c, a) ==
    IF ~Truthy(a.name)
      THEN [err |-> ValueError("Agent name is required"), client |-> c]
    ELSE IF ~Truthy(a.version)
      THEN [err |-> ValueError("Agent version is required"), client |-> c]
    ELSE [err |-> OK,
          client |-> [c EXCEPT !.current_agent_config = <<AgentConfigOf(c, a)>>]]

\* A set_agent that keeps the description already set when it is given none.
Client_set_agent_keepDescription(c, a) ==
    LET new == AgentConfigOf(c, a)
        old == c.current_agent_config
    IN  IF ~Truthy(a.name) \/ ~Truthy(a.version)
          THEN [err |-> ValueError("Agent name and version are required"), client |-> c]
        ELSE IF ~Truthy(new.environment) \/ ~Truthy(new.data_location)
          THEN [err |-> ValueError("Environment and data location are required"),
                client |-> c]
        ELSE [err |-> OK,
              client |->
                [c EXCEPT !.current_agent_config =
                    IF old # <<>> /\ a.description = None
                    THEN <<[new EXCEPT !.description = old[1].description]>>
                    ELSE <<new>>]]

(***************************************************************************)
(* HotEvalClient.set_agent on client record c: the error raised, and the   *)
(* client afterwards.                                                      *)
(***************************************************************************)
Client_set_agent(c, a) ==
    LET final_environment == Or(a.environment, c.default_environment)
        final_data_location == Or(a.data_location, c.default_data_location)
    IN  IF ~Truthy(a.name)
          THEN [err |-> ValueError("Agent name is required"), client |-> c]
        ELSE IF ~Truthy(a.version)
          THEN [err |-> ValueError("Agent version is required"), client |-> c]
        ELSE IF ~Truthy(final_environment)
          THEN [err |-> ValueError("Environment is required"), client |-> c]
        ELSE IF ~Truthy(final_data_location)
          THEN [err |-> ValueError("Data location is required"), client |-> c]
        ELSE [err |-> OK,
              client |->
                [c EXCEPT !.current_agent_config =
                    << [name |-> a.name, version |-> a.version,
                        environment |-> final_environment,
                        data_location |-> final_data_location,
                        description |-> a.description,
                        agent_type |-> a.agent_type] >>]]

(***************************************************************************)
(* get_client: the error raised when the global slot is empty.             *)
(***************************************************************************)
get_client(slot) ==
    IF slot = <<>> THEN RuntimeError("HotEval client not configured") ELSE OK

(***************************************************************************)
(* str.rstrip("/") and str.lstrip("/") on the strings the model uses.      *)
(***************************************************************************)
rstrip_slash(s) == IF s = "http://x/" THEN "http://x" ELSE s

lstrip_slash(s) ==
    CASE s = "/v1/runs/start" -> "v1/runs/start"
      [] s = "/v1/runs/end" -> "v1/runs/end"
      [] s = "/v1/steps" -> "v1/steps"
      [] OTHER -> s

(***************************************************************************)
(* A _post that logs a failure and continues.                              *)
(***************************************************************************)
Client_post_swallow(c, endpoint, data, sent) ==
    [err |-> OK,
     calls |-> << [url |-> <<c.base_url, "/", endpoint>>, json |-> data,
                   timeout |-> c.timeout, authorization |-> c.authorization,
                   ok |-> sent] >>]

(***************************************************************************)
(* HotEvalClient._post: one session.post call, whose outcome `sent` the    *)
(* Sender decides; a failure is printed and raised again.  The result is   *)
(* the error raised and the calls made on the session.                     *)
(***************************************************************************)
Client_post(c, endpoint, data, sent) ==
    LET base == IF Truthy(c.base_url) THEN rstrip_slash(c.base_url) ELSE ""
        call == [url |-> <<base, "/", lstrip_slash(endpoint)>>,
                 json |-> data, timeout |-> c.timeout,
                 authorization |-> c.authorization, ok |-> sent]
    IN  [err |-> IF sent THEN OK ELSE RequestException, calls |-> <<call>>]

(***************************************************************************)
(* A send_run_start for which the agent configuration is optional.         *)
(***************************************************************************)
Client_send_run_start_optionalAgent(c, run, sent) ==
    Client_post(c, "/v1/runs/start",
                [type |-> "run_start",
                 run |-> IF c.current_agent_config # <<>>
                         THEN Run_to_dict(run) @@
                              [agent_metadata |->
                                  AgentConfig_to_dict(c.current_agent_config[1])]
                         ELSE Run_to_dict(run)],
                sent)

(***************************************************************************)
(* HotEvalClient.send_run_start, send_run_end and send_step.               *)
(***************************************************************************)
Client_send_run_start(c, run, sent) ==
    IF c.current_agent_config # <<>>
    THEN Client_post(c, "/v1/runs/start",
                     [type |-> "run_start",
                      run |-> Run_to_dict(run) @@
                              [agent_metadata |->
                                  AgentConfig_to_dict(c.current_agent_config[1])]],
                     sent)
    ELSE [err |-> RuntimeError("No agent configured"), calls |-> <<>>]

Client_send_run_end(c, run, sent) ==
    Client_post(c, "/v1/runs/end", [type |-> "run_end", run |-> Run_to_dict(run)], sent)

Client_send_step(c, run_id, step, sent) ==
    Client_post(c, "/v1/steps",
                [type |-> "step", run_id |-> run_id, step |-> Step_to_dict(step)], sent)

\* A start_run that returns the Run without sending the run-start message.
start_run_noSend(slot, in, id, t, sent) ==
    LET run == [name |-> in.name, id |-> id, meta |-> in.meta, steps |-> <<>>,
                start_time |-> t, end_time |-> NoTime]
        gc == get_client(slot)
    IN  IF gc # OK THEN [err |-> gc, run |-> <<>>, calls |-> <<>>]
        ELSE IF slot[1].current_agent_config = <<>>
        THEN [err |-> RuntimeError("No agent configured"), run |-> <<>>,
              calls |-> <<>>]
        ELSE [err |-> OK, run |-> <<run>>, calls |-> <<>>]

\* A start_run whose Run is born with its end_time set.
start_run_bornEnded(slot, in, id, t, sent) ==
    LET run == [name |-> in.name, id |-> id, meta |-> in.meta, steps |-> <<>>,
                start_time |-> t, end_time |-> t]
        gc == get_client(slot)
        s == Client_send_run_start(slot[1], run, sent)
    IN  IF gc # OK THEN [err |-> gc, run |-> <<>>, calls |-> <<>>]
        ELSE IF s.err # OK THEN [err |-> s.err, run |-> <<>>, calls |-> s.calls]
        ELSE [err |-> OK, run |-> <<run>>, calls |-> s.calls]

(***************************************************************************)
(* runs.start_run: the Run is built first, then the client is looked up    *)
(* and the run-start message sent; the Run reaches the caller only through *)
(* the final return.  `run` is what the caller receives.                   *)
(***************************************************************************)
start_run(slot, in, id, t, sent) ==
    LET run == [name |-> in.name, id |-> id, meta |-> in.meta, steps |-> <<>>,
                start_time |-> t, end_time |-> NoTime]
        gc == get_client(slot)
        s == Client_send_run_start(slot[1], run, sent)
    IN  IF gc # OK THEN [err |-> gc, run |-> <<>>, calls |-> <<>>]
        ELSE IF s.err # OK THEN [err |-> s.err, run |-> <<>>, calls |-> s.calls]
        ELSE [err |-> OK, run |-> <<run>>, calls |-> s.calls]

(***************************************************************************)
(* An end_run that does nothing more when there is no client.              *)
(***************************************************************************)
end_run_withoutClient(slot, run, t, sent) ==
    LET ended == [run EXCEPT !.end_time = t]
    IN  IF slot = <<>> THEN [err |-> OK, run |-> ended, calls |-> <<>>]
        ELSE LET s == Client_send_run_end(slot[1], ended, sent)
             IN  [err |-> s.err, run |-> ended, calls |-> s.calls]

\* An end_run that keeps the end_time of a run that is already ended.
end_run_keepFirstEnd(slot, run, t, sent) ==
    LET ended == IF run.end_time # NoTime THEN run ELSE [run EXCEPT !.end_time = t]
        gc == get_client(slot)
        s == Client_send_run_end(slot[1], ended, sent)
    IN  IF gc # OK THEN [err |-> gc, run |-> ended, calls |-> <<>>]
        ELSE [err |-> s.err, run |-> ended, calls |-> s.calls]

\* An end_run that looks the client up before it touches the Run.
end_run_lookupFirst(slot, run, t, sent) ==
    LET ended == [run EXCEPT !.end_time = t]
        gc == get_client(slot)
        s == Client_send_run_end(slot[1], ended, sent)
    IN  IF gc # OK THEN [err |-> gc, run |-> run, calls |-> <<>>]
        ELSE [err |-> s.err, run |-> ended, calls |-> s.calls]

\* An end_run that takes the end_time back when the send fails.
end_run_rollback(slot, run, t, sent) ==
    LET ended == [run EXCEPT !.end_time = t]
        gc == get_client(slot)
        s == Client_send_run_end(slot[1], ended, sent)
    IN  IF gc # OK THEN [err |-> gc, run |-> ended, calls |-> <<>>]
        ELSE [err |-> s.err, run |-> IF s.err = OK THEN ended ELSE run,
              calls |-> s.calls]

(***************************************************************************)
(* runs.end_run: end_time is assigned on the caller's Run before the       *)
(* client is looked up.  `run` is the Run object afterwards.               *)
(***************************************************************************)
end_run(slot, run, t, sent) ==
    LET ended == [run EXCEPT !.end_time = t]
        gc == get_client(slot)
        s == Client_send_run_end(slot[1], ended, sent)
    IN  IF gc # OK THEN [err |-> gc, run |-> ended, calls |-> <<>>]
        ELSE [err |-> s.err, run |-> ended, calls |-> s.calls]

(***************************************************************************)
(* A log_step that sends the Step without appending it to the Run.         *)
(***************************************************************************)
log_step_noAppend(slot, run, in, id, ts, sent) ==
    LET n == Len(in.events)
        step == [name |-> in.name, id |-> id, attrs |-> in.attrs,
                 events |-> [i \in 1..n |->
                               [type |-> in.events[i].type,
                                content |-> in.events[i].content,
                                timestamp |-> ts[i], metadata |-> None]],
                 start_time |-> ts[n + 1], end_time |-> ts[n + 2]]
        s == Client_send_step(slot[1], run.id, step, sent)
    IN  [err |-> s.err, run |-> run,
         step |-> IF s.err = OK THEN <<step>> ELSE <<>>, calls |-> s.calls]

\* A log_step that appends the Step, its events still to come, before it
\* converts the event dicts.
log_step_appendFirst(slot, run, in, id, ts, sent) ==
    LET n == Len(in.events)
        bad == \E i \in 1..n : ~({"type", "content"} \subseteq DOMAIN in.events[i])
        bare == [name |-> in.name, id |-> id, attrs |-> in.attrs, events |-> <<>>,
                 start_time |-> ts[1], end_time |-> ts[1]]
        step == [bare EXCEPT !.events =
                    [i \in 1..n |->
                        [type |-> in.events[i].type,
                         content |-> in.events[i].content,
                         timestamp |-> ts[i],
                         metadata |-> IF "metadata" \in DOMAIN in.events[i]
                                      THEN in.events[i].metadata ELSE None]],
                 !.start_time = ts[n + 1], !.end_time = ts[n + 2]]
        appended == [run EXCEPT !.steps = Append(@, step)]
        gc == IF slot = <<>> THEN RuntimeError("HotEval client not configured") ELSE OK
        s == Client_send_step(slot[1], run.id, step, sent)
    IN  IF bad THEN [err |-> [cls |-> "KeyError", msg |-> "type or content"],
                     run |-> [run EXCEPT !.steps = Append(@, bare)],
                     step |-> <<>>, calls |-> <<>>]
        ELSE IF gc # OK THEN [err |-> gc, run |-> appended, step |-> <<>>, calls |-> <<>>]
        ELSE IF s.err # OK
          THEN [err |-> s.err, run |-> appended, step |-> <<>>, calls |-> s.calls]
        ELSE [err |-> OK, run |-> appended, step |-> <<step>>, calls |-> s.calls]

\* A log_step that sends the Step first and appends it once it was sent.
log_step_sendFirst(slot, run, in, id, ts, sent) ==
    LET n == Len(in.events)
        bad == \E i \in 1..n : ~({"type", "content"} \subseteq DOMAIN in.events[i])
        step == [name |-> in.name, id |-> id, attrs |-> in.attrs,
                 events |-> [i \in 1..n |->
                               [type |-> in.events[i].type,
                                content |-> in.events[i].content,
                                timestamp |-> ts[i],
                                metadata |-> IF "metadata" \in DOMAIN in.events[i]
                                             THEN in.events[i].metadata ELSE None]],
                 start_time |-> ts[n + 1], end_time |-> ts[n + 2]]
        gc == IF slot = <<>> THEN RuntimeError("HotEval client not configured") ELSE OK
        s == Client_send_step(slot[1], run.id, step, sent)
    IN  IF bad THEN [err |-> [cls |-> "KeyError", msg |-> "type or content"],
                     run |-> run, step |-> <<>>, calls |-> <<>>]
        ELSE IF gc # OK THEN [err |-> gc, run |-> run, step |-> <<>>, calls |-> <<>>]
        ELSE IF s.err # OK
          THEN [err |-> s.err, run |-> run, step |-> <<>>, calls |-> s.calls]
        ELSE [err |-> OK, run |-> [run EXCEPT !.steps = Append(@, step)],
              step |-> <<step>>, calls |-> s.calls]

(***************************************************************************)
(* steps.log_step.  ts holds the clock reads: one per event, then          *)
(* start_time, then end_time.  A missing or empty event list gives no      *)
(* events; an event dict without "type" or "content" raises KeyError in    *)
(* the conversion loop.  `step` is what the caller receives.               *)
(***************************************************************************)
KeyError == [cls |-> "KeyError", msg |-> "type or content"]

log_step(slot, run, in, id, ts, sent) ==
    LET n == Len(in.events)
        bad == \E i \in 1..n : ~({"type", "content"} \subseteq DOMAIN in.events[i])
        event_objects ==
            [i \in 1..n |->
                [type |-> in.events[i].type, content |-> in.events[i].content,
                 timestamp |-> ts[i],
                 metadata |-> IF "metadata" \in DOMAIN in.events[i]
                              THEN in.events[i].metadata ELSE None]]
        step == [name |-> in.name, id |-> id, attrs |-> in.attrs,
                 events |-> event_objects,
                 start_time |-> ts[n + 1], end_time |-> ts[n + 2]]
        appended == [run EXCEPT !.steps = Append(@, step)]
        gc == get_client(slot)
        s == Client_send_step(slot[1], run.id, step, sent)
    IN  IF bad THEN [err |-> KeyError, run |-> run, step |-> <<>>, calls |-> <<>>]
        ELSE IF gc # OK THEN [err |-> gc, run |-> appended, step |-> <<>>, calls |-> <<>>]
        ELSE IF s.err # OK
          THEN [err |-> s.err, run |-> appended, step |-> <<>>, calls |-> s.calls]
        ELSE [err |-> OK, run |-> appended, step |-> <<step>>, calls |-> s.calls]

(***************************************************************************)
(* The clock reads log_step makes: every event's timestamp is read after   *)
(* its "type" and "content" are looked up, so the reads stop before the    *)
(* first event dict that lacks one of them.                                *)
(***************************************************************************)
log_step_reads(in) ==
    LET n == Len(in.events)
        badAt == { i \in 1..n : ~({"type", "content"} \subseteq DOMAIN in.events[i]) }
    IN  IF badAt = {} THEN n + 2
        ELSE (CHOOSE i \in badAt : \A j \in badAt : i <= j) - 1

(***************************************************************************)
(* An exit that ends the run only when the body returned (try/else in      *)
(* place of try/finally).                                                  *)
(***************************************************************************)
Agent_run_exit_noFinally(slot, run, how, t, sent) ==
    LET e == end_run(slot, run, t, sent)
    IN  IF how = "raise"
        THEN [err |-> BodyError, run |-> run, calls |-> <<>>, end_runs |-> 0]
        ELSE [err |-> e.err, run |-> e.run, calls |-> e.calls, end_runs |-> 1]

(***************************************************************************)
(* The exit of `with agent.run(...)`: the finally clause calls end_run     *)
(* whether the body returned or raised; an error of end_run replaces the   *)
(* body's.                                                                 *)
(***************************************************************************)
Agent_run_exit(slot, run, how, t, sent) ==
    LET e == end_run(slot, run, t, sent)
    IN  [err |-> IF e.err # OK THEN e.err
                 ELSE IF how = "raise" THEN BodyError ELSE OK,
         run |-> e.run, calls |-> e.calls, end_runs |-> 1]

(***************************************************************************)
(* client.set_agent (module level) and Agent.__init__: both look the       *)
(* client up and call its set_agent; the Agent object exists only if that  *)
(* call returns.                                                           *)
(***************************************************************************)
set_agent(slot, a) ==
    LET gc == get_client(slot)
        r == Client_set_agent(slot[1], a)
    IN  IF gc # OK THEN [err |-> gc, slot |-> slot]
        ELSE [err |-> r.err, slot |-> <<r.client>>]

Agent_init(slot, a) ==
    LET r == set_agent(slot, a)
    IN  [err |-> r.err, slot |-> r.slot,
         agent |-> IF r.err = OK THEN {a} ELSE {}]

InitWith(envs) ==
    /\ environ \in envs
    /\ client = <<>>
    /\ agents = {}
    /\ runs = <<>>
    /\ posts = <<>>
    /\ clock = 0
    /\ nextId = 0
    /\ scopes = <<>>
    /\ lastSet = <<>>
    /\ setCalled = FALSE
    /\ calls = <<>>
    /\ inflight = <<>>
    /\ ret = [op |-> "init", via |-> <<>>, args |-> <<>>, err |-> OK,
              val |-> <<>>, nposts |-> 0]

(***************************************************************************)
(* A configure that keeps the endpoint of the client it replaces when it   *)
(* is given none.                                                          *)
(***************************************************************************)
Configure_keepEndpoint(a) ==
    LET r == HotEvalClient_init(a, environ)
        merged == IF client # <<>> /\ ~Truthy(a.base_url)
                  THEN <<[r.client[1] EXCEPT !.base_url = client[1].base_url]>>
                  ELSE r.client
    IN  /\ client' = IF r.err = OK THEN merged ELSE client
        /\ setCalled' = IF r.err = OK THEN FALSE ELSE setCalled
        /\ ret' = [op |-> "configure", via |-> <<>>, args |-> a, err |-> r.err,
                   val |-> <<>>, nposts |-> Len(posts)]
        /\ lastSet' = IF r.err = OK THEN <<>> ELSE lastSet
        /\ UNCHANGED <<environ, inflight, agents, runs, posts, clock, nextId, scopes, calls>>

(***************************************************************************)
(* A configure that carries the current agent over to the new client.      *)
(***************************************************************************)
Configure_keepAgent(a) ==
    LET r == HotEvalClient_init(a, environ)
        merged == IF client # <<>>
                  THEN <<[r.client[1] EXCEPT !.current_agent_config =
                                                client[1].current_agent_config]>>
                  ELSE r.client
    IN  /\ client' = IF r.err = OK THEN merged ELSE client
        /\ setCalled' = IF r.err = OK THEN FALSE ELSE setCalled
        /\ ret' = [op |-> "configure", via |-> <<>>, args |-> a, err |-> r.err,
                   val |-> <<>>, nposts |-> Len(posts)]
        /\ lastSet' = IF r.err = OK THEN <<>> ELSE lastSet
        /\ UNCHANGED <<environ, inflight, agents, runs, posts, clock, nextId, scopes, calls>>

(***************************************************************************)
(* hoteval.configure: the global is assigned only if the constructor       *)
(* returns.                                                                *)
(***************************************************************************)
Configure(a) ==
    LET r == HotEvalClient_init(a, environ)
    IN  /\ client' = IF r.err = OK THEN r.client ELSE client
        /\ setCalled' = IF r.err = OK THEN FALSE ELSE setCalled
        /\ ret' = [op |-> "configure", via |-> <<>>, args |-> a, err |-> r.err,
                   val |-> <<>>, nposts |-> Len(posts)]
        /\ lastSet' = IF r.err = OK THEN <<>> ELSE lastSet
        /\ UNCHANGED <<environ, inflight, agents, runs, posts, clock, nextId, scopes, calls>>

(***************************************************************************)
(* What a set_agent call leaves in the property-only variables.            *)
(***************************************************************************)
NoteSetAgent(a, err) ==
    /\ setCalled' = IF client # <<>> THEN TRUE ELSE setCalled
    /\ lastSet' = IF err = OK
                  THEN << [name |-> a.name, version |-> a.version,
                           environment |->
                               IF a.environment \in {None, ""}
                               THEN client[1].default_environment ELSE a.environment,
                           data_location |->
                               IF a.data_location \in {None, ""}
                               THEN client[1].default_data_location ELSE a.data_location,
                           description |-> a.description,
                           agent_type |-> a.agent_type] >>
                  ELSE lastSet

SetAgent(a) ==
    LET r == set_agent(client, a)
    IN  /\ client' = r.slot
        /\ NoteSetAgent(a, r.err)
        /\ ret' = [op |-> "set_agent", via |-> <<>>, args |-> a, err |-> r.err,
                   val |-> <<>>, nposts |-> Len(posts)]
        /\ UNCHANGED <<environ, inflight, agents, runs, posts, clock, nextId, scopes, calls>>

NewAgent(a) ==
    LET r == Agent_init(client, a)
    IN  /\ Cardinality(agents \cup {a}) <= MaxAgents
        /\ client' = r.slot
        /\ agents' = agents \cup r.agent
        /\ NoteSetAgent(a, r.err)
        /\ ret' = [op |-> "Agent", via |-> <<>>, args |-> a, err |-> r.err,
                   val |-> <<>>, nposts |-> Len(posts)]
        /\ UNCHANGED <<environ, inflight, runs, posts, clock, nextId, scopes, calls>>

(***************************************************************************)
(* The application builds a Run itself, Run(name=..., meta=...): a fresh    *)
(* id, no steps, no start_time and no end_time.                            *)
(***************************************************************************)
ConstructRun(in) ==
    LET id == nextId + 1
    IN  /\ nextId < MaxIds
        /\ nextId' = id
        /\ runs' = (id :> [name |-> in.name, id |-> id, meta |-> in.meta,
                          steps |-> <<>>, start_time |-> NoTime,
                          end_time |-> NoTime]) @@ runs
        /\ ret' = [op |-> "Run", via |-> <<>>, args |-> in, err |-> OK,
                   val |-> <<id>>, nposts |-> Len(posts)]
        /\ UNCHANGED <<environ, inflight, client, agents, posts, clock, scopes,
                       lastSet, setCalled, calls>>

(***************************************************************************)
(* A start_run call, made directly (via = <<>>) or through Agent `via`;    *)
(* `scoped` is the entry of `with agent.run(...)`, which opens a scope     *)
(* when start_run returns.                                                 *)
(***************************************************************************)
DoStartRun(op, via, in, t, sent, scoped) ==
    LET id == nextId + 1
        r == start_run(client, in, id, t, sent)
    IN  /\ nextId < MaxIds
        /\ Len(posts) < MaxPosts
        /\ nextId' = id
        /\ clock' = t
        /\ posts' = posts \o r.calls
        /\ runs' = IF r.run # <<>> THEN (id :> r.run[1]) @@ runs ELSE runs
        /\ scopes' = IF scoped /\ r.run # <<>>
                     THEN Append(scopes, [agent |-> via[1], run |-> id])
                     ELSE scopes
        /\ calls' = Append(calls, [op |-> "start_run", run |-> id, events |-> 0,
                                   agent |-> lastSet, err |-> r.err,
                                   nposts |-> Len(r.calls)])
        /\ ret' = [op |-> op, via |-> via, args |-> in, err |-> r.err,
                   val |-> IF r.run # <<>> THEN <<id>> ELSE <<>>,
                   nposts |-> Len(posts)]
        /\ UNCHANGED <<environ, inflight, client, agents, lastSet, setCalled>>

StartRun(in, t, sent) == DoStartRun("start_run", <<>>, in, t, sent, FALSE)

AgentStartRun(a, in, t, sent) == DoStartRun("Agent.start_run", <<a>>, in, t, sent, FALSE)

\* An entry of `with agent.run(...)` that runs the body, and so the exit,
\* whether or not start_run returned.
AgentRunEnter_opensAnyway(a, in, t, sent) ==
    LET id == nextId + 1
        r == start_run(client, in, id, t, sent)
        run == [name |-> in.name, id |-> id, meta |-> in.meta, steps |-> <<>>,
                start_time |-> t, end_time |-> NoTime]
    IN  /\ Len(scopes) < MaxScopes
        /\ nextId < MaxIds
        /\ Len(posts) < MaxPosts
        /\ nextId' = id
        /\ clock' = t
        /\ posts' = posts \o r.calls
        /\ runs' = (id :> run) @@ runs
        /\ scopes' = Append(scopes, [agent |-> a, run |-> id])
        /\ calls' = Append(calls, [op |-> "start_run", run |-> id, events |-> 0,
                                   agent |-> lastSet, err |-> r.err,
                                   nposts |-> Len(r.calls)])
        /\ ret' = [op |-> "Agent.run.enter", via |-> <<a>>, args |-> in,
                   err |-> r.err, val |-> <<id>>, nposts |-> Len(posts)]
        /\ UNCHANGED <<environ, inflight, client, agents, lastSet, setCalled>>

AgentRunEnter(a, in, t, sent) ==
    /\ Len(scopes) < MaxScopes
    /\ DoStartRun("Agent.run.enter", <<a>>, in, t, sent, TRUE)

(***************************************************************************)
(* A log_step call on a Run the application holds.                         *)
(***************************************************************************)
DoLogStep(op, via, rid, in, ts, sent) ==
    LET id == nextId + 1
        r == log_step(client, runs[rid], in, id, ts, sent)
        reads == log_step_reads(in)
    IN  /\ Len(posts) < MaxPosts
        /\ nextId' = IF r.err = KeyError THEN nextId ELSE id
        /\ clock' = IF reads = 0 THEN clock ELSE ts[reads]
        /\ posts' = posts \o r.calls
        /\ runs' = [runs EXCEPT ![rid] = r.run]
        /\ calls' = Append(calls, [op |-> "log_step", run |-> rid,
                                   events |-> Len(in.events), agent |-> <<>>,
                                   err |-> r.err, nposts |-> Len(r.calls)])
        /\ ret' = [op |-> op, via |-> via, args |-> [run |-> rid, step |-> in],
                   err |-> r.err,
                   val |-> IF r.step # <<>> THEN <<id>> ELSE <<>>,
                   nposts |-> Len(posts)]
        /\ UNCHANGED <<environ, inflight, client, agents, scopes, lastSet, setCalled>>

LogStep(rid, in, ts, sent) ==
    /\ nextId < MaxIds
    /\ DoLogStep("log_step", <<>>, rid, in, ts, sent)

AgentLogStep(a, rid, in, ts, sent) ==
    /\ nextId < MaxIds
    /\ DoLogStep("log_step", <<>>, rid, in, ts, sent)

\* log_step on a Run that may already hold steps.
LogStepOnBuilt(rid, in, ts, sent) ==
    /\ Len(calls) < MaxLogs
    /\ DoLogStep("log_step", <<>>, rid, in, ts, sent)

(***************************************************************************)
(* An end_run call on a Run the application holds.                         *)
(***************************************************************************)
DoEndRun(op, via, rid, t, sent) ==
    LET r == end_run(client, runs[rid], t, sent)
    IN  /\ Len(posts) < MaxPosts
        /\ clock' = t
        /\ posts' = posts \o r.calls
        /\ runs' = [runs EXCEPT ![rid] = r.run]
        /\ calls' = Append(calls, [op |-> "end_run", run |-> rid, events |-> 0,
                                   agent |-> <<>>, err |-> r.err,
                                   nposts |-> Len(r.calls)])
        /\ ret' = [op |-> op, via |-> via, args |-> [run |-> rid], err |-> r.err,
                   val |-> <<>>, nposts |-> Len(posts)]
        /\ UNCHANGED <<environ, inflight, client, agents, nextId, scopes, lastSet, setCalled>>

EndRun(rid, t, sent) == DoEndRun("end_run", <<>>, rid, t, sent)

AgentEndRun(a, rid, t, sent) == DoEndRun("end_run", <<>>, rid, t, sent)

(***************************************************************************)
(* Leaving the innermost `with agent.run(...)` block, the body having      *)
(* returned or raised.                                                     *)
(***************************************************************************)
AgentRunExit(how, t, sent) ==
    /\ scopes # <<>>
    /\ Len(posts) < MaxPosts
    /\ LET top == scopes[Len(scopes)]
           r == Agent_run_exit(client, runs[top.run], how, t, sent)
       IN  /\ scopes' = SubSeq(scopes, 1, Len(scopes) - 1)
           /\ clock' = IF r.end_runs > 0 THEN t ELSE clock
           /\ posts' = posts \o r.calls
           /\ runs' = [runs EXCEPT ![top.run] = r.run]
           /\ calls' = IF r.end_runs > 0
                       THEN Append(calls, [op |-> "end_run", run |-> top.run,
                                           events |-> 0, agent |-> <<>>,
                                           err |-> r.err, nposts |-> Len(r.calls)])
                       ELSE calls
           /\ ret' = [op |-> "Agent.run.exit", via |-> <<top.agent>>,
                      args |-> [run |-> top.run, how |-> how, end_runs |-> r.end_runs],
                      err |-> r.err, val |-> <<>>, nposts |-> Len(posts)]
    /\ UNCHANGED <<environ, inflight, client, agents, nextId, lastSet, setCalled>>

(***************************************************************************)
(* The lifecycle specification: configure, set_agent and the module-level  *)
(* start_run / log_step / end_run, with a clock that may advance from one  *)
(* call to the next.                                                       *)
(***************************************************************************)
Next ==
    \/ Configure(KeyInput)
    \/ \E a \in AgentInputs : SetAgent(a)
    \/ \E in \in RunInputs, t \in clock..MaxClock, sent \in BOOLEAN :
          StartRun(in, t, sent)
    \/ \E rid \in DOMAIN runs, in \in StepInputs, t \in clock..MaxClock,
          sent \in BOOLEAN :
          LogStep(rid, in, ClockReads(t, Len(in.events) + 2), sent)
    \/ \E rid \in DOMAIN runs, t \in clock..MaxClock, sent \in BOOLEAN :
          EndRun(rid, t, sent)

Init == InitWith({NoEnviron})

Spec == Init /\ [][Next]_vars

(***************************************************************************)
(* The facade specification: Agent instances, their methods and the        *)
(* `with agent.run(...)` scope, over the client configure installs.  Time  *)
(* stands still here; what these operations do with the clock is what the  *)
(* module-level functions they delegate to do with it.                     *)
(***************************************************************************)
NextAgent ==
    \/ Configure(KeyInput)
    \/ \E a \in AgentInputs : NewAgent(a)
    \/ \E a \in agents, in \in RunInputs, sent \in BOOLEAN :
          AgentStartRun(a, in, clock, sent)
    \/ \E a \in agents, in \in RunInputs, sent \in BOOLEAN :
          AgentRunEnter(a, in, clock, sent)
    \/ \E a \in agents, rid \in DOMAIN runs, in \in StepInputs, sent \in BOOLEAN :
          AgentLogStep(a, rid, in, ClockReads(clock, Len(in.events) + 2), sent)
    \/ \E a \in agents, rid \in DOMAIN runs, sent \in BOOLEAN :
          AgentEndRun(a, rid, clock, sent)
    \/ \E how \in {"return", "raise"}, sent \in BOOLEAN :
          AgentRunExit(how, clock, sent)

SpecAgent == Init /\ [][NextAgent]_vars

(***************************************************************************)
(* The application takes the client away again, by the assignment          *)
(* hoteval.client._client = None the test suite makes; Agent instances     *)
(* built before it stay in the application's hands.                        *)
(***************************************************************************)
ResetClient ==
    /\ client' = <<>>
    /\ setCalled' = FALSE
    /\ lastSet' = <<>>
    /\ ret' = [op |-> "reset", via |-> <<>>, args |-> <<>>, err |-> OK,
               val |-> <<>>, nposts |-> Len(posts)]
    /\ UNCHANGED <<environ, inflight, agents, runs, posts, clock, nextId, scopes,
                   calls>>

(***************************************************************************)
(* The scope specification: `with agent.run(...)` blocks entered in every  *)
(* state of the registry -- no client, a client with no current agent, a   *)
(* client with one -- the body logging steps, and the blocks left.         *)
(***************************************************************************)
NextAgentEntry ==
    \/ Configure(KeyInput)
    \/ ResetClient
    \/ \E a \in AgentInputs : NewAgent(a)
    \/ \E a \in agents, in \in RunInputs, sent \in BOOLEAN :
          AgentRunEnter(a, in, clock, sent)
    \/ \E in \in StepInputs, sent \in BOOLEAN :
          /\ scopes # <<>>
          /\ AgentLogStep(scopes[Len(scopes)].agent, scopes[Len(scopes)].run, in,
                          ClockReads(clock, Len(in.events) + 2), sent)
    \/ \E how \in {"return", "raise"}, sent \in BOOLEAN :
          AgentRunExit(how, clock, sent)

SpecAgentEntry == Init /\ [][NextAgentEntry]_vars

(***************************************************************************)
(* The unconfigured specification: a process in which configure never      *)
(* succeeds (no key in the arguments or the environment), calling every    *)
(* operation, with Run objects the application builds itself.              *)
(***************************************************************************)
NextUnconfigured ==
    \/ Configure(NoKeyInput)
    \/ \E a \in AgentInputs : SetAgent(a)
    \/ \E a \in AgentInputs : NewAgent(a)
    \/ \E in \in RunInputs : ConstructRun(in)
    \/ \E in \in RunInputs, t \in clock..MaxClock, sent \in BOOLEAN :
          Len(calls) < MaxCalls /\ StartRun(in, t, sent)
    \/ \E rid \in DOMAIN runs, in \in MoreStepInputs, t \in clock..MaxClock,
          sent \in BOOLEAN :
          /\ Len(calls) < MaxCalls
          /\ LogStep(rid, in, ClockReads(t, Len(in.events) + 2), sent)
    \/ \E rid \in DOMAIN runs, t \in clock..MaxClock, sent \in BOOLEAN :
          Len(calls) < MaxCalls /\ EndRun(rid, t, sent)

SpecUnconfigured == Init /\ [][NextUnconfigured]_vars

(***************************************************************************)
(* The serialization specification: the application builds a Run from      *)
(* Step and Event objects of its own, as test_types_serialization does,    *)
(* and calls to_dict on it.                                                *)
(***************************************************************************)
EventObjects ==
    { [type |-> "prompt", content |-> "hi", timestamp |-> 0, metadata |-> "role"],
      [type |-> "output", content |-> "yo", timestamp |-> NoTime, metadata |-> None] }

RECURSIVE SeqsUpTo(_, _)
SeqsUpTo(S, n) ==
    IF n = 0 THEN { <<>> }
    ELSE SeqsUpTo(S, n - 1) \cup
         { Append(q, x) : q \in { p \in SeqsUpTo(S, n - 1) : Len(p) = n - 1 }, x \in S }

\* Step objects without their ids, and Runs of such steps with ids given in order.
StepShapes ==
    { [name |-> "s1", attrs |-> None, events |-> evs,
       start_time |-> NoTime, end_time |-> NoTime] : evs \in SeqsUpTo(EventObjects, MaxEvents) }

BuiltRuns ==
    { [name |-> "r1", id |-> 1, meta |-> "u=1",
       steps |-> [i \in 1..Len(shapes) |->
                     [name |-> shapes[i].name, id |-> i + 1, attrs |-> shapes[i].attrs,
                      events |-> shapes[i].events,
                      start_time |-> shapes[i].start_time,
                      end_time |-> shapes[i].end_time]],
       start_time |-> NoTime, end_time |-> NoTime] : shapes \in SeqsUpTo(StepShapes, MaxSteps) }

InitSerialize ==
    /\ environ = NoEnviron
    /\ client = <<>>
    /\ agents = {}
    /\ \E r \in BuiltRuns : runs = (r.id :> r) /\ nextId = r.id + Len(r.steps)
    /\ posts = <<>>
    /\ clock = 0
    /\ scopes = <<>>
    /\ lastSet = <<>>
    /\ setCalled = FALSE
    /\ calls = <<>>
    /\ inflight = <<>>
    /\ ret = [op |-> "init", via |-> <<>>, args |-> <<>>, err |-> OK,
              val |-> <<>>, nposts |-> 0]

Serialize(rid) ==
    /\ ret' = [op |-> "Run.to_dict", via |-> <<>>, args |-> [run |-> rid], err |-> OK,
               val |-> <<Run_to_dict(runs[rid])>>, nposts |-> Len(posts)]
    /\ UNCHANGED <<environ, inflight, client, agents, runs, posts, clock, nextId, scopes,
                   lastSet, setCalled, calls>>

NextSerialize == \E rid \in DOMAIN runs : Serialize(rid)

SpecSerialize == InitSerialize /\ [][NextSerialize]_vars

(***************************************************************************)
(* The step specification: log_step on a Run the application built, which  *)
(* may already hold steps, before and after configure, the clock free to   *)
(* advance between any two reads.                                          *)
(***************************************************************************)
InitSteps ==
    /\ InitSerialize
    /\ \A i \in 1..Len(runs[1].steps) : runs[1].steps[i].events = <<>>

NextSteps ==
    \/ Configure(KeyInput)
    \/ \E rid \in DOMAIN runs, in \in MoreStepInputs, sent \in BOOLEAN :
          \E ts \in ClockReadings(clock, Len(in.events) + 2) :
              LogStepOnBuilt(rid, in, ts, sent)

SpecSteps == InitSteps /\ [][NextSteps]_vars

(***************************************************************************)
(* The registry specification: configure and set_agent over every          *)
(* environment and the wider inputs, and start_run to observe the slot.    *)
(***************************************************************************)
InitConfig == InitWith(Environs)

NextConfig ==
    \/ \E a \in MoreConfigureInputs : Configure(a)
    \/ \E a \in MoreAgentInputs : SetAgent(a)
    \/ \E sent \in BOOLEAN, in \in RunInputs :
          nextId < MaxConfigRuns /\ StartRun(in, clock, sent)

SpecConfig == InitConfig /\ [][NextConfig]_vars

(***************************************************************************)
(* Calls made from several call sites at once.  A call site is a thread    *)
(* or task of the application; between two statements of the call one site *)
(* is in, any other site may run.                                          *)
(***************************************************************************)
Sites == 1..MaxSites

Resume(site) == [s \in DOMAIN inflight \ {site} |-> inflight[s]]

(***************************************************************************)
(* start_run, statement by statement.  It first builds the Run: uuid4()    *)
(* and datetime.now() are read, the registry is not.  It then looks the    *)
(* client up and hands it the Run; send_run_start reads                    *)
(* self.current_agent_config there.  `seen` and `declared` record what the *)
(* registry held when the call was made; the code keeps no such copy.      *)
(***************************************************************************)
StartRunConstruct(site, in, t) ==
    LET id == nextId + 1
    IN  /\ site \notin DOMAIN inflight
        /\ nextId < MaxIds
        /\ Len(posts) + Cardinality(DOMAIN inflight) < MaxPosts
        /\ nextId' = id
        /\ clock' = t
        /\ inflight' = (site :> [op |-> "start_run", args |-> in, id |-> id,
                                 t |-> t, seen |-> client,
                                 declared |-> lastSet]) @@ inflight
        /\ UNCHANGED <<environ, client, agents, runs, posts, scopes, lastSet,
                       setCalled, calls, ret>>

\* A start_run that sends the identity the registry held when it was called.
StartRunSend_snapshot(site, sent) ==
    /\ site \in DOMAIN inflight
    /\ inflight[site].op = "start_run"
    /\ LET f == inflight[site]
           r == start_run(f.seen, f.args, f.id, f.t, sent)
       IN  /\ posts' = posts \o r.calls
           /\ runs' = IF r.run # <<>> THEN (f.id :> r.run[1]) @@ runs ELSE runs
           /\ calls' = Append(calls, [op |-> "start_run", run |-> f.id,
                                      events |-> 0, agent |-> f.declared,
                                      err |-> r.err, nposts |-> Len(r.calls)])
           /\ ret' = [op |-> "start_run", via |-> <<>>, args |-> f.args,
                      err |-> r.err,
                      val |-> IF r.run # <<>> THEN <<f.id>> ELSE <<>>,
                      nposts |-> Len(posts)]
           /\ inflight' = Resume(site)
    /\ UNCHANGED <<environ, client, agents, clock, nextId, scopes, lastSet,
                   setCalled>>

StartRunSend(site, sent) ==
    /\ site \in DOMAIN inflight
    /\ inflight[site].op = "start_run"
    /\ LET f == inflight[site]
           r == start_run(client, f.args, f.id, f.t, sent)
       IN  /\ posts' = posts \o r.calls
           /\ runs' = IF r.run # <<>> THEN (f.id :> r.run[1]) @@ runs ELSE runs
           /\ calls' = Append(calls, [op |-> "start_run", run |-> f.id,
                                      events |-> 0, agent |-> f.declared,
                                      err |-> r.err, nposts |-> Len(r.calls)])
           /\ ret' = [op |-> "start_run", via |-> <<>>, args |-> f.args,
                      err |-> r.err,
                      val |-> IF r.run # <<>> THEN <<f.id>> ELSE <<>>,
                      nposts |-> Len(posts)]
           /\ inflight' = Resume(site)
    /\ UNCHANGED <<environ, client, agents, clock, nextId, scopes, lastSet,
                   setCalled>>

(***************************************************************************)
(* The start_run race specification: the application configures once, and  *)
(* its call sites call set_agent and start_run at any time.  set_agent     *)
(* changes the registry in one assignment, so it is one step.              *)
(***************************************************************************)
NextStartRace ==
    \/ client = <<>> /\ Configure(KeyInput)
    \/ \E a \in AgentInputs : SetAgent(a)
    \/ \E site \in Sites, in \in RunInputs : StartRunConstruct(site, in, clock)
    \/ \E site \in Sites, sent \in BOOLEAN : StartRunSend(site, sent)

SpecStartRace == Init /\ [][NextStartRace]_vars

(***************************************************************************)
(* log_step, statement by statement, for well-formed events.  It builds    *)
(* the Step from its arguments, uuid4() and datetime.now(); appends it     *)
(* with run.steps.append(step), one call on the list object; then looks    *)
(* the client up and hands it run.id and the Step it built.  `seen`        *)
(* records the list as it was when the Step was built; the code keeps no   *)
(* such copy.                                                              *)
(***************************************************************************)
LogStepBuild(site, rid, in, ts) ==
    LET id == nextId + 1
        built == log_step(<<>>, runs[rid], in, id, ts, TRUE).run.steps
    IN  /\ site \notin DOMAIN inflight
        /\ Len(calls) + Cardinality(DOMAIN inflight) < MaxLogs
        /\ nextId' = id
        /\ clock' = ts[Len(ts)]
        /\ inflight' = (site :> [op |-> "log_step", pc |-> "append", rid |-> rid,
                                 args |-> in, step |-> built[Len(built)],
                                 seen |-> runs[rid].steps]) @@ inflight
        /\ UNCHANGED <<environ, client, agents, runs, posts, scopes, lastSet,
                       setCalled, calls, ret>>

\* An append that writes back the list read when the Step was built.
LogStepAppend_writeBack(site) ==
    /\ site \in DOMAIN inflight
    /\ inflight[site].op = "log_step" /\ inflight[site].pc = "append"
    /\ LET f == inflight[site]
       IN  /\ runs' = [runs EXCEPT ![f.rid].steps = Append(f.seen, f.step)]
           /\ inflight' = [inflight EXCEPT ![site].pc = "send"]
    /\ UNCHANGED <<environ, client, agents, posts, clock, nextId, scopes,
                   lastSet, setCalled, calls, ret>>

LogStepAppend(site) ==
    /\ site \in DOMAIN inflight
    /\ inflight[site].op = "log_step" /\ inflight[site].pc = "append"
    /\ LET f == inflight[site]
       IN  /\ runs' = [runs EXCEPT ![f.rid].steps = Append(@, f.step)]
           /\ inflight' = [inflight EXCEPT ![site].pc = "send"]
    /\ UNCHANGED <<environ, client, agents, posts, clock, nextId, scopes,
                   lastSet, setCalled, calls, ret>>

LogStepSend(site, sent) ==
    /\ site \in DOMAIN inflight
    /\ inflight[site].op = "log_step" /\ inflight[site].pc = "send"
    /\ LET f == inflight[site]
           gc == get_client(client)
           s == Client_send_step(client[1], runs[f.rid].id, f.step, sent)
           err == IF gc # OK THEN gc ELSE s.err
           made == IF gc # OK THEN <<>> ELSE s.calls
       IN  /\ posts' = posts \o made
           /\ calls' = Append(calls, [op |-> "log_step", run |-> f.rid,
                                      events |-> Len(f.args.events),
                                      agent |-> <<>>, err |-> err,
                                      nposts |-> Len(made), step |-> f.step.id])
           /\ ret' = [op |-> "log_step", via |-> <<>>,
                      args |-> [run |-> f.rid, step |-> f.args], err |-> err,
                      val |-> IF err = OK THEN <<f.step.id>> ELSE <<>>,
                      nposts |-> Len(posts)]
           /\ inflight' = Resume(site)
    /\ UNCHANGED <<environ, client, agents, runs, clock, nextId, scopes,
                   lastSet, setCalled>>

(***************************************************************************)
(* The log_step race specification: the application configures once, and  *)
(* its call sites call log_step on a Run it built, which may already hold  *)
(* steps.                                                                  *)
(***************************************************************************)
NextStepRace ==
    \/ client = <<>> /\ Configure(KeyInput)
    \/ \E site \in Sites, rid \in DOMAIN runs, in \in StepInputs :
          LogStepBuild(site, rid, in, ClockReads(clock, Len(in.events) + 2))
    \/ \E site \in Sites : LogStepAppend(site)
    \/ \E site \in Sites, sent \in BOOLEAN : LogStepSend(site, sent)

SpecStepRace == InitSteps /\ [][NextStepRace]_vars

(***************************************************************************)
(* Reading the state for the properties below.                             *)
(***************************************************************************)
StartOps == {"start_run", "Agent.start_run", "Agent.run.enter"}

SendingOps == StartOps \cup {"log_step", "end_run", "Agent.run.exit"}

\* The number of session.post calls the latest call made.
Made == Len(posts) - ret.nposts

LastPost == posts[Len(posts)]

\* The run a posted message belongs to.
PostRunId(p) == IF p.json.type = "step" THEN p.json.run_id ELSE p.json.run.id

\* The endpoint path of a posted message, after the base URL.
PostPath(p) == <<p.url[2], p.url[3]>>

\* The calls made on run r, and the messages posted for it, each in order.
CallsOn(r) == LET On(c) == c.run = r IN SelectSeq(calls, On)

PostsFor(r) == LET For(p) == PostRunId(p) = r IN SelectSeq(posts, For)

(***************************************************************************)
(* C1.  Whenever a start_run call hands a run_start message to the Sender, *)
(* the message's agent_metadata has exactly the name, version,             *)
(* environment, data_location, description and agent_type that the most    *)
(* recent successful set_agent declared (environment and data_location     *)
(* falling back to the client's defaults), not those of an earlier one.    *)
(***************************************************************************)
C1_RunStartCarriesLatestAgent ==
    (ret.op \in StartOps /\ Made > 0) =>
        /\ lastSet # <<>>
        /\ LastPost.json.type = "run_start"
        /\ LastPost.json.run.agent_metadata = lastSet[1]

C1_Witness ==
    /\ ret.op = "start_run" /\ ret.err = OK /\ Made = 1
    /\ LastPost.json.run.agent_metadata.name = "b2"
    /\ \E i \in 1..(Len(posts) - 1) :
          /\ posts[i].json.type = "run_start"
          /\ posts[i].json.run.agent_metadata.name = "bot"

C3_WorkflowWithoutSetAgent ==
    (ret.op = "start_run" /\ client # <<>> /\ ~setCalled) =>
        /\ ret.err = OK
        /\ ret.val # <<>>
        /\ Made = 1

(***************************************************************************)
(* C4.  For every run on which exactly start_run, one log_step with k      *)
(* events and one end_run were called, all sends succeeding: exactly three *)
(* messages were posted for it, one per call and in call order -- a        *)
(* run_start to /v1/runs/start whose agent_metadata.name is the name set   *)
(* when the run started, a step to /v1/steps, a run_end to /v1/runs/end -- *)
(* and the run holds exactly one step with k events and an end_time.       *)
(***************************************************************************)
FullLifecycle(r) ==
    LET cs == CallsOn(r)
    IN  /\ Len(cs) = 3
        /\ cs[1].op = "start_run" /\ cs[2].op = "log_step" /\ cs[3].op = "end_run"
        /\ \A i \in 1..3 : cs[i].err = OK

C4_LifecycleOneMessagePerCall ==
    \A r \in DOMAIN runs :
        FullLifecycle(r) =>
            LET cs == CallsOn(r)
                ps == PostsFor(r)
            IN  /\ \A i \in 1..3 : cs[i].nposts = 1
                /\ Len(ps) = 3
                /\ \A i \in 1..3 : ps[i].ok
                /\ ps[1].json.type = "run_start"
                /\ PostPath(ps[1]) = <<"/", "v1/runs/start">>
                /\ ps[1].json.run.agent_metadata.name = cs[1].agent[1].name
                /\ ps[2].json.type = "step"
                /\ PostPath(ps[2]) = <<"/", "v1/steps">>
                /\ ps[3].json.type = "run_end"
                /\ PostPath(ps[3]) = <<"/", "v1/runs/end">>
                /\ Len(runs[r].steps) = 1
                /\ Len(runs[r].steps[1].events) = cs[2].events
                /\ runs[r].end_time # NoTime

C4_Witness ==
    \E r \in DOMAIN runs :
        /\ FullLifecycle(r)
        /\ CallsOn(r)[2].events = 2
        /\ Len(posts) = 3
        /\ ret.op = "end_run"

(***************************************************************************)
(* C5.  The claim as stated: with several Agent instances constructed and  *)
(* the current-agent slot holding the identity of one of them, a run       *)
(* started through an Agent instance is sent with that instance's own name *)
(* and version.                                                            *)
(***************************************************************************)
C5_AgentRunCarriesOwnIdentity ==
    (/\ ret.op \in {"Agent.start_run", "Agent.run.enter"}
     /\ ret.err = OK
     /\ Cardinality(agents) > 1
     /\ \E a \in agents : a.name = lastSet[1].name /\ a.version = lastSet[1].version) =>
        /\ LastPost.json.run.agent_metadata.name = ret.via[1].name
        /\ LastPost.json.run.agent_metadata.version = ret.via[1].version

(***************************************************************************)
(* C6.  Leaving a `with agent.run(...)` block, whether its body returned   *)
(* or raised, calls end_run on the run exactly once: on return to the      *)
(* caller the run's end_time is the time just read and exactly one         *)
(* message, a run_end for that run, has been handed to the Sender.         *)
(***************************************************************************)
C6_ScopedRunAlwaysEnds ==
    ret.op = "Agent.run.exit" =>
        /\ ret.args.end_runs = 1
        /\ runs[ret.args.run].end_time = clock
        /\ Made = 1
        /\ LastPost.json.type = "run_end"
        /\ LastPost.json.run.id = ret.args.run
        /\ calls[Len(calls)].op = "end_run"
        /\ calls[Len(calls)].run = ret.args.run

C6_Witness ==
    /\ ret.op = "Agent.run.exit"
    /\ ret.args.how = "raise"
    /\ ret.err = BodyError
    /\ Len(runs[ret.args.run].steps) = 1
    /\ LastPost.json.type = "run_end"

C8_RunSurvivesFailedStart ==
    (ret.op = "start_run" /\ Made = 1 /\ ~LastPost.ok) =>
        /\ ret.val # <<>>
        /\ ret.val[1] \in DOMAIN runs
        /\ runs[ret.val[1]].name = ret.args.name
        /\ runs[ret.val[1]].start_time # NoTime

(***************************************************************************)
(* C9.  A set_agent call that reaches the client with an empty name, or    *)
(* with an empty or missing version, raises ValueError (the spec's         *)
(* ConfigurationError) and makes no session.post call, whatever the other  *)
(* arguments, the client's settings and the agent currently set.           *)
(***************************************************************************)
C9_EmptyNameOrVersionRejected ==
    (/\ ret.op = "set_agent"
     /\ client # <<>>
     /\ ~Truthy(ret.args.name) \/ ~Truthy(ret.args.version)) =>
        /\ ret.err.cls = ConfigurationError
        /\ Made = 0

C9_Witness ==
    /\ ret.op = "set_agent"
    /\ client # <<>>
    /\ client[1].current_agent_config # <<>>
    /\ ret.args.name = "b2"
    /\ ret.args.version = None
    /\ ret.err.cls = "ValueError"

(***************************************************************************)
(* C10.  A configure call with no explicit api_key (None or empty) in a    *)
(* process whose HOTEVAL_API_KEY is unset or empty raises ValueError (the  *)
(* spec's ConfigurationError) and makes no session.post call.              *)
(***************************************************************************)
C10_ConfigureNeedsCredentials ==
    (/\ ret.op = "configure"
     /\ ~Truthy(ret.args.api_key)
     /\ ~Truthy(environ.HOTEVAL_API_KEY)) =>
        /\ ret.err.cls = ConfigurationError
        /\ Made = 0

C10_Witness ==
    /\ ret.op = "configure"
    /\ ret.args.api_key = ""
    /\ environ.HOTEVAL_API_KEY = ""
    /\ ret.err = ValueError("API key required")
    /\ client # <<>>

(***************************************************************************)
(* C11.  While the client slot is empty, start_run, end_run, set_agent,    *)
(* Agent construction, and log_step on event dicts that all carry "type"   *)
(* and "content", raise the RuntimeError "HotEval client not configured"   *)
(* (the spec's NotConfiguredError) and make no session.post call; log_step *)
(* on an event dict lacking one of the keys raises KeyError instead, also  *)
(* without a session.post call.                                            *)
(***************************************************************************)
GatedOps == {"start_run", "log_step", "end_run", "set_agent", "Agent"}

WellFormedEvents(evs) ==
    \A i \in 1..Len(evs) : {"type", "content"} \subseteq DOMAIN evs[i]

LastCallWellFormed == ret.op = "log_step" => WellFormedEvents(ret.args.step.events)

C11_UnconfiguredCallsFail ==
    (client = <<>> /\ ret.op \in GatedOps) =>
        /\ Made = 0
        /\ posts = <<>>
        /\ IF LastCallWellFormed
           THEN /\ ret.err.cls = NotConfiguredError
                /\ ret.err = RuntimeError("HotEval client not configured")
           ELSE ret.err = KeyError

C11_Witness ==
    /\ client = <<>>
    /\ ret.op = "end_run"
    /\ ret.err = RuntimeError("HotEval client not configured")
    /\ Len(calls) = 2
    /\ calls[1].op = "log_step" /\ calls[1].events = 2
    /\ calls[1].err = RuntimeError("HotEval client not configured")

\* The claim as stated: every one of the operations, whatever its arguments.
C11_EveryCallNotConfigured ==
    (client = <<>> /\ ret.op \in GatedOps) =>
        /\ ret.err.cls = NotConfiguredError
        /\ Made = 0

(***************************************************************************)
(* C12.  Every successful configure call leaves a client whose api_key,    *)
(* base_url, timeout, default environment and default data location are    *)
(* each the call's own argument or, where that is None or empty, the       *)
(* environment variable or, where that is unset, the built-in default --   *)
(* whatever client it replaces -- and whose agent slot is empty; no other  *)
(* call, a failing configure included, changes any of these settings.      *)
(***************************************************************************)
FromArgEnvDefault(arg, key, default) ==
    IF arg \notin {None, ""} THEN arg
    ELSE IF environ[key] # None THEN environ[key] ELSE default

ConfiguredBy(a) ==
    [api_key |-> FromArgEnvDefault(a.api_key, "HOTEVAL_API_KEY", None),
     base_url |-> FromArgEnvDefault(a.base_url, "HOTEVAL_BASE_URL",
                                    "https://api.hoteval.com"),
     timeout |-> a.timeout,
     default_environment |-> FromArgEnvDefault(a.environment, "ENVIRONMENT", "dev"),
     default_data_location |-> FromArgEnvDefault(a.data_location, "DATA_LOCATION", "EU")]

Settings(slot) ==
    IF slot = <<>> THEN <<>>
    ELSE << [api_key |-> slot[1].api_key, base_url |-> slot[1].base_url,
             timeout |-> slot[1].timeout,
             default_environment |-> slot[1].default_environment,
             default_data_location |-> slot[1].default_data_location] >>

C12_ConfigureReplacesWholesale ==
    [][ IF ret'.op = "configure" /\ ret'.err = OK
        THEN /\ Settings(client') = <<ConfiguredBy(ret'.args)>>
             /\ client'[1].authorization = <<"Bearer", ConfiguredBy(ret'.args).api_key>>
             /\ client'[1].current_agent_config = <<>>
        ELSE Settings(client') = Settings(client) ]_vars

\* A second client, configured after a run was started under the first.
C12_Witness ==
    /\ ret.op = "configure" /\ ret.err = OK
    /\ ret.args.api_key = "k2"
    /\ client[1].timeout = 5 /\ client[1].default_data_location = "EU2"
    /\ Len(posts) = 1
    /\ posts[1].authorization = <<"Bearer", "k">>
    /\ posts[1].url[1] = "http://x"

(***************************************************************************)
(* C13.  After a set_agent call on a configured client: if it succeeded,   *)
(* the stored environment is the argument when that is non-empty and the   *)
(* client's default environment otherwise, and likewise data_location; if  *)
(* name and version were given and either resolved value is empty, it      *)
(* raised ValueError (the spec's ConfigurationError).  And in every state  *)
(* the installed AgentConfig, if any, has a non-empty name, version,       *)
(* environment and data_location.                                          *)
(***************************************************************************)
ArgOrDefault(arg, default) == IF arg \in {None, ""} THEN default ELSE arg

C13_AgentLocationResolved ==
    /\ (client # <<>> /\ client[1].current_agent_config # <<>>) =>
          LET cfg == client[1].current_agent_config[1]
          IN  {cfg.name, cfg.version, cfg.environment, cfg.data_location}
                  \cap {None, ""} = {}
    /\ (ret.op = "set_agent" /\ client # <<>>) =>
          LET env == ArgOrDefault(ret.args.environment, client[1].default_environment)
              loc == ArgOrDefault(ret.args.data_location,
                                  client[1].default_data_location)
          IN  /\ ret.err = OK =>
                    /\ client[1].current_agent_config[1].environment = env
                    /\ client[1].current_agent_config[1].data_location = loc
              /\ (/\ Truthy(ret.args.name) /\ Truthy(ret.args.version)
                  /\ (env \in {None, ""} \/ loc \in {None, ""})) =>
                    /\ ret.err.cls = ConfigurationError
                    /\ Made = 0

\* An empty environment argument falls back to the default taken from the
\* process environment, next to an explicit data_location.
C13_Witness ==
    /\ ret.op = "set_agent" /\ ret.err = OK
    /\ ret.args.environment = "" /\ ret.args.data_location = "US"
    /\ environ.DATA_LOCATION = ""
    /\ client[1].default_data_location = ""
    /\ client[1].current_agent_config[1].environment = "staging"
    /\ client[1].current_agent_config[1].data_location = "US"

(***************************************************************************)
(* C14.  A set_agent call on a configured client either succeeds, and then *)
(* all six fields of the agent slot are those of this call (name, version, *)
(* description and agent_type as given, environment and data_location as   *)
(* given or the client's defaults) with nothing of the AgentConfig it      *)
(* replaces, or fails, and then the client and its agent slot are exactly  *)
(* as before the call.                                                     *)
(***************************************************************************)
DeclaredBy(a, c) ==
    [name |-> a.name, version |-> a.version,
     environment |-> ArgOrDefault(a.environment, c.default_environment),
     data_location |-> ArgOrDefault(a.data_location, c.default_data_location),
     description |-> a.description, agent_type |-> a.agent_type]

C14_AgentSlotReplacedWhole ==
    [][ (ret'.op = "set_agent" /\ client # <<>>) =>
            IF ret'.err = OK
            THEN client' = <<[client[1] EXCEPT !.current_agent_config =
                                 <<DeclaredBy(ret'.args, client[1])>>]>>
            ELSE client' = client ]_vars

\* AgentA, which has no description, replaces AgentB, under which a run was
\* started and whose description was "d".
C14_Witness ==
    /\ ret.op = "set_agent" /\ ret.err = OK
    /\ ret.args = AgentA
    /\ Len(posts) = 1
    /\ posts[1].json.run.agent_metadata.name = "b2"
    /\ posts[1].json.run.agent_metadata.description = "d"
    /\ client[1].current_agent_config[1].description = None
    /\ client[1].current_agent_config[1].agent_type = "sdk_configured"

(***************************************************************************)
(* C15.  end_run is not idempotent.  Every end_run call on a run (with a   *)
(* client configured) sets the run's end_time to the time it reads and     *)
(* hands the Sender one run_end message carrying that time, so k calls on  *)
(* the same run make k run_end sends; under a non-decreasing clock the     *)
(* end_time of a later send is never earlier than that of an earlier one   *)
(* -- it is later exactly when the clock advanced between the calls.       *)
(***************************************************************************)
EndCallsOn(r) == LET IsEnd(c) == c.op = "end_run" IN SelectSeq(CallsOn(r), IsEnd)

RunEndPostsFor(r) ==
    LET IsEnd(p) == p.json.type = "run_end" IN SelectSeq(PostsFor(r), IsEnd)

\* The end_time a run_end message carries.
SentEndTime(p) == p.json.run.end_time[2]

C15_EndRunResends ==
    /\ ret.op = "end_run" =>
          /\ Made = 1
          /\ LastPost.json.type = "run_end"
          /\ LastPost.json.run.id = ret.args.run
          /\ LastPost.json.run.end_time = isoformat(clock)
          /\ runs[ret.args.run].end_time = clock
    /\ \A r \in DOMAIN runs :
          LET ps == RunEndPostsFor(r)
          IN  /\ Len(ps) = Len(EndCallsOn(r))
              /\ \A i, j \in 1..Len(ps) :
                    i < j => SentEndTime(ps[j]) >= SentEndTime(ps[i])

C15_Witness ==
    \E r \in DOMAIN runs :
        /\ Len(EndCallsOn(r)) = 2
        /\ Len(RunEndPostsFor(r)) = 2
        /\ SentEndTime(RunEndPostsFor(r)[1]) < SentEndTime(RunEndPostsFor(r)[2])
        /\ runs[r].end_time = SentEndTime(RunEndPostsFor(r)[2])

\* The claim as stated: the second send's end_time is later than the first's.
C15_SecondEndTimeLater ==
    \A r \in DOMAIN runs :
        LET ps == RunEndPostsFor(r)
        IN  \A i, j \in 1..Len(ps) :
                i < j => SentEndTime(ps[j]) > SentEndTime(ps[i])

(***************************************************************************)
(* C16.  Run.to_dict of a Run holding N steps, the i-th holding M_i        *)
(* events, returns a mapping whose "steps" list has exactly N entries, the *)
(* i-th being the i-th step (same id) with an "events" list of exactly M_i *)
(* entries, the j-th being the step's j-th event (same type, content and   *)
(* metadata), for all N and M_i from 0 up to the bounds.                   *)
(***************************************************************************)
C16_SerializationKeepsCountsAndOrder ==
    ret.op = "Run.to_dict" =>
        LET r == runs[ret.args.run]
            d == ret.val[1]
        IN  /\ DOMAIN d.steps = 1..Len(r.steps)
            /\ \A i \in 1..Len(r.steps) :
                  /\ d.steps[i].id = r.steps[i].id
                  /\ DOMAIN d.steps[i].events = 1..Len(r.steps[i].events)
                  /\ \A j \in 1..Len(r.steps[i].events) :
                        /\ d.steps[i].events[j].type = r.steps[i].events[j].type
                        /\ d.steps[i].events[j].content = r.steps[i].events[j].content
                        /\ d.steps[i].events[j].metadata = r.steps[i].events[j].metadata

C16_Witness ==
    /\ ret.op = "Run.to_dict"
    /\ Len(runs[1].steps) = 2
    /\ Len(runs[1].steps[1].events) = 2
    /\ runs[1].steps[1].events[1].type = "output"
    /\ runs[1].steps[1].events[2].type = "prompt"
    /\ runs[1].steps[2].events = <<>>
    /\ Len(ret.val[1].steps) = 2
    /\ ret.val[1].steps[1].events[1].type = "output"
    /\ ret.val[1].steps[2].events = <<>>

(***************************************************************************)
(* C17.  Every log_step call that builds its Step (its event dicts all     *)
(* carry "type" and "content") leaves run.steps as it was with the new     *)
(* Step appended last -- also when the send then fails or there is no      *)
(* client to send with, which is what appending before sending means.      *)
(* The Step's events are the supplied dicts, one for one and in order.     *)
(* With a client, exactly one message is handed to the Sender, to          *)
(* /v1/steps, of type "step", with run_id the run's id and step the        *)
(* serialization of that Step; and when the call returns, it returns that  *)
(* Step.                                                                   *)
(***************************************************************************)
ConvertedFrom(evs, dicts) ==
    /\ Len(evs) = Len(dicts)
    /\ \A j \in 1..Len(dicts) :
          /\ evs[j].type = dicts[j].type
          /\ evs[j].content = dicts[j].content
          /\ evs[j].metadata = IF "metadata" \in DOMAIN dicts[j]
                               THEN dicts[j].metadata ELSE None

C17_LogStepAppendsThenSends ==
    [][ (calls' # calls /\ ret'.op = "log_step" /\ ret'.err # KeyError) =>
            LET rid == ret'.args.run
                before == runs[rid].steps
                after == runs'[rid].steps
                st == after[Len(after)]
            IN  /\ after = Append(before, st)
                /\ \A i \in 1..Len(before) : before[i].id # st.id
                /\ st.name = ret'.args.step.name
                /\ st.attrs = ret'.args.step.attrs
                /\ ConvertedFrom(st.events, ret'.args.step.events)
                /\ IF client = <<>> THEN posts' = posts
                   ELSE /\ Len(posts') = Len(posts) + 1
                        /\ SubSeq(posts', 1, Len(posts)) = posts
                        /\ posts'[Len(posts')].json =
                              [type |-> "step", run_id |-> runs[rid].id,
                               step |-> Step_to_dict(st)]
                        /\ PostPath(posts'[Len(posts')]) = <<"/", "v1/steps">>
                        /\ (ret'.err = OK) = posts'[Len(posts')].ok
                /\ ret'.err = OK => ret'.val = <<st.id>> ]_vars

\* A third step, with two events, appended to a Run that held two and sent.
C17_Witness ==
    /\ ret.op = "log_step" /\ ret.err = OK
    /\ Len(runs[1].steps) = 3
    /\ Len(runs[1].steps[3].events) = 2
    /\ runs[1].steps[3].events[2].metadata = "role"
    /\ ret.val = <<runs[1].steps[3].id>>
    /\ LastPost.json.type = "step"
    /\ LastPost.json.step.id = runs[1].steps[3].id

(***************************************************************************)
(* C18.  The claim as stated: every Step that log_step created has its     *)
(* start_time equal to its end_time, the clock being free to advance       *)
(* between any two reads.  (The steps the application built itself have    *)
(* neither time.)                                                          *)
(***************************************************************************)
C18_StepStartEqualsEnd ==
    \A r \in DOMAIN runs :
        \A i \in 1..Len(runs[r].steps) :
            runs[r].steps[i].start_time = runs[r].steps[i].end_time

(***************************************************************************)
(* C19.  The Run start_run returns has no steps, no end_time, and the time *)
(* just read as start_time.  A Run on which end_run was never called has   *)
(* no end_time, whatever log_step calls were made on it; a Run on which    *)
(* end_run was called, successfully or not, has an end_time, and with a    *)
(* clock that never goes back that end_time is not before its start_time.  *)
(***************************************************************************)
C19_RunOpenUntilEnded ==
    /\ (ret.op = "start_run" /\ ret.err = OK) =>
          /\ runs[ret.val[1]].steps = <<>>
          /\ runs[ret.val[1]].end_time = NoTime
          /\ runs[ret.val[1]].start_time = clock
    /\ \A r \in DOMAIN runs :
          IF EndCallsOn(r) = <<>>
          THEN runs[r].end_time = NoTime
          ELSE /\ runs[r].end_time # NoTime
               /\ runs[r].end_time >= runs[r].start_time

\* A run that stayed open through a log_step and was then ended, later than
\* it started, by an end_run whose send failed.
C19_Witness ==
    /\ ret.op = "end_run" /\ ret.err = RequestException
    /\ LET r == ret.args.run
       IN  /\ Len(CallsOn(r)) = 3
           /\ CallsOn(r)[2].op = "log_step"
           /\ Len(runs[r].steps) = 1
           /\ runs[r].end_time > runs[r].start_time

(***************************************************************************)
(* C20.  The claim as stated: once end_run was called on a run, a later    *)
(* log_step call on it hands nothing to the Sender and leaves run.steps as *)
(* it was, so the run holds only the steps logged before its first         *)
(* end_run.                                                                *)
(***************************************************************************)
C20_NoStepAfterEnd ==
    \A r \in DOMAIN runs :
        LET cs == CallsOn(r)
            ends == { i \in 1..Len(cs) : cs[i].op = "end_run" }
        IN  ends # {} =>
                LET first == CHOOSE i \in ends : \A j \in ends : i <= j
                IN  /\ \A j \in (first + 1)..Len(cs) :
                          cs[j].op = "log_step" => cs[j].nposts = 0
                    /\ Len(runs[r].steps) =
                          Cardinality({ k \in 1..(first - 1) : cs[k].op = "log_step" })

(***************************************************************************)
(* C21.  Nothing is rolled back when a send fails.  A log_step whose send  *)
(* failed leaves its Step as the last of run.steps, the very Step the      *)
(* failed message carried; an end_run whose send failed leaves end_time at *)
(* the time it read.  And the run stays usable: every log_step and end_run *)
(* call made on a run, whatever failed on it before, goes through to the   *)
(* Sender once and fails only if that send fails, and every Step logged is *)
(* kept.                                                                   *)
(***************************************************************************)
LogCallsOn(r) == LET IsLog(c) == c.op = "log_step" IN SelectSeq(CallsOn(r), IsLog)

C21_NoRollbackOnSendFailure ==
    /\ (ret.op = "log_step" /\ ret.err = RequestException) =>
          LET r == runs[ret.args.run]
          IN  /\ r.steps # <<>>
              /\ r.steps[Len(r.steps)].id = nextId
              /\ LastPost.json.step = Step_to_dict(r.steps[Len(r.steps)])
    /\ (ret.op = "end_run" /\ ret.err = RequestException) =>
          /\ runs[ret.args.run].end_time = clock
          /\ LastPost.json.run.end_time = isoformat(clock)
    /\ \A r \in DOMAIN runs :
          /\ Len(runs[r].steps) = Len(LogCallsOn(r))
          /\ \A i \in 2..Len(CallsOn(r)) :
                /\ CallsOn(r)[i].nposts = 1
                /\ CallsOn(r)[i].err \in {OK, RequestException}

\* After a log_step whose send failed, an end_run on the same run went through.
C21_Witness ==
    /\ ret.op = "end_run" /\ ret.err = OK
    /\ LET cs == CallsOn(ret.args.run)
       IN  /\ Len(cs) = 3
           /\ cs[2].op = "log_step" /\ cs[2].err = RequestException
           /\ Len(runs[ret.args.run].steps) = 1
           /\ LastPost.json.run.steps[1].id = runs[ret.args.run].steps[1].id

(***************************************************************************)
(* C22.  start_run takes no snapshot of the current agent: the run_start   *)
(* message carries what the agent slot holds when send_run_start reads it. *)
(* When another call site's set_agent runs between the Run's construction  *)
(* inside start_run and that read, the run is sent with the identity that  *)
(* set_agent declared, not with the one in force when start_run was        *)
(* called; and a start_run called with no agent declared succeeds when one *)
(* is declared before the read.                                            *)
(***************************************************************************)
C22_AgentReadAtSend ==
    ret.op = "start_run" =>
        /\ (Made = 1) = (lastSet # <<>>)
        /\ (ret.err \in {OK, RequestException}) = (lastSet # <<>>)
        /\ Made = 1 =>
              /\ LastPost.json.type = "run_start"
              /\ LastPost.json.run.id = calls[Len(calls)].run
              /\ LastPost.json.run.agent_metadata = lastSet[1]

C22_Witness ==
    /\ ret.op = "start_run" /\ ret.err = OK /\ Made = 1
    /\ calls[Len(calls)].agent # <<>>
    /\ calls[Len(calls)].agent[1].name = "bot"
    /\ LastPost.json.run.agent_metadata.name = "b2"
    /\ lastSet[1].name = "b2"

(***************************************************************************)
(* C23.  A successful configure installs a client whose agent slot is      *)
(* empty, whatever set_agent had declared on the client it replaces.  From *)
(* then until set_agent runs again, start_run, called through an Agent     *)
(* instance created before that configure included, raises the no-agent    *)
(* error, returns no Run, opens no `with` block and makes no session.post  *)
(* call; once set_agent has succeeded again, start_run reaches the Sender. *)
(***************************************************************************)
C23_ConfigureEmptiesAgentSlot ==
    /\ (client # <<>> /\ ~setCalled) => client[1].current_agent_config = <<>>
    /\ (ret.op \in StartOps /\ client # <<>> /\ ~setCalled) =>
          /\ ret.err = RuntimeError("No agent configured")
          /\ ret.val = <<>>
          /\ Made = 0
          /\ calls[Len(calls)].run \notin DOMAIN runs
          /\ \A i \in 1..Len(scopes) : scopes[i].run # calls[Len(calls)].run
    /\ (ret.op \in StartOps /\ client # <<>> /\ lastSet # <<>>) =>
          /\ Made = 1
          /\ ret.err \in {OK, RequestException}

C23_Witness ==
    /\ ret.op = "Agent.start_run" /\ ret.via # <<>> /\ ret.via[1] \in agents
    /\ client # <<>> /\ ~setCalled
    /\ ret.err = RuntimeError("No agent configured")
    /\ Made = 0
    /\ posts # <<>>
    /\ LastPost.json.type = "run_start"
    /\ LastPost.json.run.agent_metadata.name = ret.via[1].name

(***************************************************************************)
(* C24.  end_run and log_step change the caller's Run before they look the *)
(* client up.  With no client configured, end_run raises the               *)
(* not-configured error and the Run's end_time is set all the same;        *)
(* log_step, given well-formed events, raises it and the new Step is the   *)
(* last element of run.steps all the same; start_run raises it and leaves  *)
(* nothing behind: no Run is returned and no Run the application holds is  *)
(* changed.  None of the three makes a session.post call.                  *)
(***************************************************************************)
C24_RunMutatedBeforeLookup ==
    [][ (client = <<>> /\ Len(calls') = Len(calls) + 1) =>
          LET c == calls'[Len(calls')]
              NotConfigured == RuntimeError("HotEval client not configured")
          IN  /\ posts' = posts
              /\ client' = <<>>
              /\ c.op = "end_run" =>
                    /\ ret'.err = NotConfigured
                    /\ clock' # NoTime
                    /\ runs' = [runs EXCEPT ![c.run].end_time = clock']
              /\ (c.op = "log_step" /\ WellFormedEvents(ret'.args.step.events)) =>
                    /\ ret'.err = NotConfigured
                    /\ ret'.val = <<>>
                    /\ DOMAIN runs' = DOMAIN runs
                    /\ \A r \in DOMAIN runs \ {c.run} : runs'[r] = runs[r]
                    /\ Len(runs'[c.run].steps) = Len(runs[c.run].steps) + 1
                    /\ SubSeq(runs'[c.run].steps, 1, Len(runs[c.run].steps))
                          = runs[c.run].steps
                    /\ LET st == runs'[c.run].steps[Len(runs'[c.run].steps)]
                       IN  /\ st.id = nextId'
                           /\ st.name = ret'.args.step.name
                           /\ Len(st.events) = c.events
                    /\ runs' = [runs EXCEPT ![c.run].steps = runs'[c.run].steps]
              /\ c.op = "start_run" =>
                    /\ ret'.err = NotConfigured
                    /\ ret'.val = <<>>
                    /\ runs' = runs
                    /\ agents' = agents /\ scopes' = scopes
    ]_vars

C24_Witness ==
    /\ client = <<>>
    /\ ret.op = "end_run"
    /\ Len(calls) = 2
    /\ calls[1].op = "log_step" /\ calls[2].op = "end_run"
    /\ calls[2].run = calls[1].run
    /\ \A i \in 1..2 : calls[i].err = RuntimeError("HotEval client not configured")
    /\ DOMAIN runs = {calls[1].run}
    /\ Len(runs[calls[1].run].steps) = 1
    /\ runs[calls[1].run].end_time # NoTime
    /\ posts = <<>>

(***************************************************************************)
(* C25.  For every Run a successful start_run returned, the run_start      *)
(* message with its id was handed to the Sender, once, before every step   *)
(* and run_end message with that id; an id whose start_run failed has no   *)
(* step or run_end message at all.  When a `with agent.run(...)` block is  *)
(* left, the run_end message its exit sends comes after every step message *)
(* of that run, those sent by the body included.                           *)
(***************************************************************************)
PostTypes(r) == [i \in 1..Len(PostsFor(r)) |-> PostsFor(r)[i].json.type]

C25_RunStartFirstRunEndLast ==
    /\ \A r \in DOMAIN runs :
          /\ PostsFor(r) # <<>>
          /\ PostTypes(r)[1] = "run_start"
          /\ PostsFor(r)[1].ok
          /\ \A i \in 2..Len(PostsFor(r)) : PostTypes(r)[i] \in {"step", "run_end"}
    /\ \A r \in (1..nextId) \ DOMAIN runs :
          \A i \in 1..Len(PostsFor(r)) :
              PostTypes(r)[i] = "run_start" /\ ~PostsFor(r)[i].ok
    /\ ret.op = "Agent.run.exit" =>
          /\ Made = 1
          /\ PostRunId(LastPost) = ret.args.run
          /\ LastPost.json.type = "run_end"
          /\ Len(PostsFor(ret.args.run)) >= 2

C25_Witness ==
    /\ ret.op = "Agent.run.exit"
    /\ PostTypes(ret.args.run) = <<"run_start", "step", "run_end">>
    /\ Len(runs[ret.args.run].steps) = 1

(***************************************************************************)
(* C26.  When log_step calls on the same Run are interleaved statement by  *)
(* statement, no Step is lost or duplicated: a Step is in run.steps        *)
(* exactly once from the moment its call has appended it, the Steps the    *)
(* Run held before stay where they were, and once the calls have returned  *)
(* run.steps holds each new Step exactly once, in either order.  Every     *)
(* step message sent carries the Run's id and the Step of the call that    *)
(* sent it.                                                                *)
(***************************************************************************)
StepIndexes(r, id) == { i \in 1..Len(runs[r].steps) : runs[r].steps[i].id = id }

StepPostsOf(id) ==
    { i \in 1..Len(posts) : posts[i].json.type = "step" /\ posts[i].json.step.id = id }

Appending(r) ==
    { s \in DOMAIN inflight : inflight[s].op = "log_step" /\ inflight[s].rid = r }

C26_NoStepLostOrDuplicated ==
    \A r \in DOMAIN runs :
        /\ \A i, j \in 1..Len(runs[r].steps) :
              runs[r].steps[i].id = runs[r].steps[j].id => i = j
        /\ \A s \in Appending(r) :
              /\ Cardinality(StepIndexes(r, inflight[s].step.id))
                    = IF inflight[s].pc = "send" THEN 1 ELSE 0
              /\ StepPostsOf(inflight[s].step.id) = {}
              /\ \A i \in 1..Len(inflight[s].seen) :
                    runs[r].steps[i] = inflight[s].seen[i]
        /\ \A k \in 1..Len(LogCallsOn(r)) :
              LET c == LogCallsOn(r)[k]
              IN  /\ Cardinality(StepIndexes(r, c.step)) = 1
                  /\ Cardinality(StepPostsOf(c.step)) = c.nposts
                  /\ \A i \in StepPostsOf(c.step) :
                        /\ posts[i].json.run_id = runs[r].id
                        /\ \E n \in StepIndexes(r, c.step) :
                              posts[i].json.step = Step_to_dict(runs[r].steps[n])
        /\ Appending(r) = {} =>
              Len(runs[r].steps)
                 = (nextId - 1) - Len(calls) + Len(LogCallsOn(r))

C26_Witness ==
    /\ inflight = <<>>
    /\ Len(calls) = 2 /\ calls[1].err = OK /\ calls[2].err = OK
    /\ calls[1].run = calls[2].run
    /\ Len(posts) = 2
    /\ LET st == runs[calls[1].run].steps
       IN  /\ Len(st) >= 3
           /\ st[Len(st)].id = posts[1].json.step.id
           /\ st[Len(st) - 1].id = posts[2].json.step.id
           /\ posts[1].json.step.id = calls[1].step
           /\ posts[1].json.step.events # posts[2].json.step.events

(***************************************************************************)
(* C27.  log_step converts its event dicts before it touches the Run: when *)
(* any of them lacks the "type" or the "content" key, the call raises      *)
(* KeyError, returns no Step, leaves every Run as it was -- run.steps      *)
(* included -- draws no Step id and makes no session.post call, whether or *)
(* not a client is configured and whatever well-formed events precede the  *)
(* malformed one.                                                          *)
(***************************************************************************)
C27_MalformedEventLeavesRunAlone ==
    [][ (calls' # calls /\ ret'.op = "log_step"
            /\ ~WellFormedEvents(ret'.args.step.events)) =>
          /\ ret'.err = KeyError
          /\ ret'.val = <<>>
          /\ runs' = runs
          /\ posts' = posts
          /\ nextId' = nextId
          /\ calls'[Len(calls')].nposts = 0 ]_vars

C27_Witness ==
    /\ ret.op = "log_step" /\ ret.err = KeyError
    /\ client # <<>>
    /\ WellFormedEvents(SubSeq(ret.args.step.events, 1, 1))
    /\ Len(ret.args.step.events) = 2
    /\ Len(calls) = 2 /\ calls[1].err = OK
    /\ Len(posts) = 1
    /\ Len(runs[ret.args.run].steps) = nextId - 1
    /\ runs[ret.args.run].steps[nextId - 1].id = posts[1].json.step.id

(***************************************************************************)
(* C28.  When the start_run that `with agent.run(...)` makes on entry      *)
(* fails -- no client configured, no current agent, or the Sender failing  *)
(* -- the error the block raises is start_run's own, the body does not     *)
(* run (no block is opened and no Run handed out), end_run is not called   *)
(* and no run_end message is posted: the only call made is the start_run,  *)
(* and the only post, if any, its failed run_start.  No later call or      *)
(* message bears the id of that Run.                                       *)
(***************************************************************************)
EntryErrors ==
    { RuntimeError("HotEval client not configured"),
      RuntimeError("No agent configured"),
      RequestException }

C28_FailedEntrySkipsBodyAndExit ==
    /\ (ret.op = "Agent.run.enter" /\ ret.err # OK) =>
          LET c == calls[Len(calls)]
          IN  /\ ret.err \in EntryErrors
              /\ ret.err = c.err
              /\ ret.err = IF client = <<>>
                           THEN RuntimeError("HotEval client not configured")
                           ELSE IF lastSet = <<>>
                           THEN RuntimeError("No agent configured")
                           ELSE RequestException
              /\ ret.val = <<>>
              /\ c.op = "start_run"
              /\ Made = c.nposts
              /\ Made = IF ret.err = RequestException THEN 1 ELSE 0
              /\ Made = 1 => LastPost.json.type = "run_start" /\ ~LastPost.ok
    /\ \A k \in 1..Len(calls) :
          (calls[k].op = "start_run" /\ calls[k].err # OK) =>
              /\ calls[k].run \notin DOMAIN runs
              /\ \A i \in 1..Len(scopes) : scopes[i].run # calls[k].run
              /\ \A j \in 1..Len(calls) : calls[j].run = calls[k].run => j = k
              /\ \A i \in 1..Len(posts) :
                    PostRunId(posts[i]) = calls[k].run =>
                        posts[i].json.type = "run_start"

\* A block whose entry failed at the Sender, after a block that was entered
\* and left.
C28_Witness ==
    /\ ret.op = "Agent.run.enter" /\ ret.err = RequestException
    /\ scopes = <<>>
    /\ Len(calls) = 3
    /\ calls[1].op = "start_run" /\ calls[1].err = OK
    /\ calls[2].op = "end_run" /\ calls[2].run = calls[1].run
    /\ calls[3].op = "start_run" /\ calls[3].run # calls[1].run
    /\ Len(posts) = 3

====
